---- MODULE Spec2Model ----
(***************************************************************************)
(* Model of the insurance-claims demo application (src/app.py).            *)
(*                                                                         *)
(* Persistent state is the two directory trees the handlers read and write:*)
(*   uploads      uploads/pdfs and uploads/images, path -> file content    *)
(*   claims_data  claims_data/<claim_id>.json, claim id -> document        *)
(* A text string is a tuple of one-character strings, so that rsplit,      *)
(* lower, float and string comparison are computed character by character. *)
(* A JSON document is a tuple of tokens, written and read token by token.  *)
(***************************************************************************)
EXTENDS Integers, Sequences, FiniteSets, TLC

VARIABLES
    uploads,      \* path -> content of every file under uploads/
    claims_data,  \* claim id -> document claims_data/<claim id>.json
    clock,        \* the last reading of datetime.now(), in ticks
    req,          \* the request whose handler has just returned, if any
    resp,         \* its response, until it is delivered
    writers,      \* the submit_claim requests inside `with open(..., 'w')`
    nreq,         \* submit_claim requests received so far
    accepted      \* history: claim id -> the last submission answered success

vars == <<uploads, claims_data, clock, req, resp, writers, nreq, accepted>>

(***************************************************************************)
(* Bounds of the model.                                                    *)
(***************************************************************************)
\* submit_claim requests received in one behaviour
MaxSubmits == 2
\* clock ticks (one tick is one microsecond step of the modelled clock)
MaxTicks == 2
\* submit_claim requests that may be writing their document at the same time
MaxWriters == 2

(***************************************************************************)
(* Text helpers.                                                           *)
(***************************************************************************)
\* request.form.get(...) of a field the form does not carry
None == <<"None">>

UpperCase == <<"A","B","C","D","E","F","G","H","I","J","K","L","M",
               "N","O","P","Q","R","S","T","U","V","W","X","Y","Z">>
LowerCase == <<"a","b","c","d","e","f","g","h","i","j","k","l","m",
               "n","o","p","q","r","s","t","u","v","w","x","y","z">>

\* str.lower() on one character
LowerChar(c) ==
    IF \E i \in 1..26 : UpperCase[i] = c
    THEN LowerCase[CHOOSE i \in 1..26 : UpperCase[i] = c]
    ELSE c

\* str.lower()
Lower(s) == [i \in 1..Len(s) |-> LowerChar(s[i])]

\* '.' in filename
HasDot(s) == \E i \in 1..Len(s) : s[i] = "."

\* filename.rsplit('.', 1)[1]   (defined when HasDot(s))
RSplitExt(s) ==
    LET last == CHOOSE i \in 1..Len(s) :
                   s[i] = "." /\ \A j \in (i+1)..Len(s) : s[j] # "."
    IN  SubSeq(s, last + 1, Len(s))

Digits == <<"0","1","2","3","4","5","6","7","8","9">>
IsDigit(c) == \E i \in 1..10 : Digits[i] = c
DigitVal(c) == (CHOOSE i \in 1..10 : Digits[i] = c) - 1

RECURSIVE DigitsToNat(_)
DigitsToNat(s) ==
    IF s = <<>> THEN 0
    ELSE 10 * DigitsToNat(SubSeq(s, 1, Len(s) - 1)) + DigitVal(s[Len(s)])

(***************************************************************************)
(* float(text): the decimal forms [sign] digits [. digits] and             *)
(* [sign] . digits.  The value is kept in hundredths (the inputs of the    *)
(* model carry at most two fractional digits).                             *)
(***************************************************************************)
FloatBody(s) == IF s # <<>> /\ s[1] \in {"+", "-"} THEN Tail(s) ELSE s

FloatOk(s) ==
    LET b == FloatBody(s)
        dots == {i \in 1..Len(b) : b[i] = "."}
    IN  /\ \A i \in 1..Len(b) : IsDigit(b[i]) \/ b[i] = "."
        /\ Cardinality(dots) <= 1
        /\ \E i \in 1..Len(b) : IsDigit(b[i])

FloatValue(s) ==
    LET b == FloatBody(s)
        dot == IF HasDot(b) THEN CHOOSE i \in 1..Len(b) : b[i] = "." ELSE Len(b) + 1
        whole == SubSeq(b, 1, dot - 1)
        frac == SubSeq(b, dot + 1, Len(b))
        frac2 == SubSeq(frac \o <<"0", "0">>, 1, 2)
        mag == 100 * DigitsToNat(whole) + DigitsToNat(frac2)
    IN  IF s # <<>> /\ s[1] = "-" THEN 0 - mag ELSE mag

(***************************************************************************)
(* datetime.now().isoformat(): the clock counts ticks; a second has        *)
(* TicksPerSecond ticks.  The text is the two-digit second followed, when  *)
(* the sub-second part is not zero, by "." and the sub-second digit (the   *)
(* date and the hour:minute prefix are the same for every reading).        *)
(***************************************************************************)
\* ticks in one second (the sub-second digit of a timestamp ranges below it)
TicksPerSecond == 2
\* the first reading of the clock: 9 seconds and one tick
FirstTick == 9 * TicksPerSecond + 1

IsoFormat(t) ==
    LET sec == t \div TicksPerSecond
        sub == t % TicksPerSecond
        ss == <<Digits[(sec \div 10) + 1], Digits[(sec % 10) + 1]>>
    IN  IF sub = 0 THEN ss ELSE ss \o <<".", Digits[sub + 1]>>

\* code point order of the characters of a timestamp
CodeOrder == <<".", "0","1","2","3","4","5","6","7","8","9">>
CharCode(c) == CHOOSE i \in 1..Len(CodeOrder) : CodeOrder[i] = c

\* a < b on str
RECURSIVE StrLess(_, _)
StrLess(a, b) ==
    IF a = <<>> THEN b # <<>>
    ELSE IF b = <<>> THEN FALSE
    ELSE IF a[1] = b[1] THEN StrLess(Tail(a), Tail(b))
    ELSE CharCode(a[1]) < CharCode(b[1])

(***************************************************************************)
(* File Store: allowed_file and save_uploaded_file.                        *)
(***************************************************************************)
ALLOWED_EXTENSIONS ==
    { <<"p","d","f">>, <<"p","n","g">>, <<"j","p","g">>,
      <<"j","p","e","g">>, <<"g","i","f">> }

\* variant: the extension is compared without .lower()
allowed_file_CaseSensitive(filename) ==
    HasDot(filename) /\ RSplitExt(filename) \in ALLOWED_EXTENSIONS

allowed_file(filename) ==
    HasDot(filename) /\ Lower(RSplitExt(filename)) \in ALLOWED_EXTENSIONS

\* the guard of save_uploaded_file: a FileStorage is true when it has a name
FileAccepted(file) == file.filename # <<>> /\ allowed_file(file.filename)

\* f"{claim_id}_{uuid.uuid4().hex[:8]}.{file_extension}"
UniqueFilename(claim_id, hex, filename) ==
    claim_id \o <<"_">> \o hex \o <<".">> \o Lower(RSplitExt(filename))

Subfolder(file_type) == IF file_type = "pdf" THEN "pdfs" ELSE "images"

\* os.path.join(UPLOAD_FOLDER, subfolder, unique_filename)
FilePath(subfolder, name) == <<"uploads", subfolder, name>>

\* the dictionary save_uploaded_file returns for an accepted file
FileInfo(file, file_type, claim_id, hex) ==
    LET unique_filename == UniqueFilename(claim_id, hex, file.filename)
    IN  [ original_name |-> file.filename,
          saved_name    |-> unique_filename,
          file_path     |-> FilePath(Subfolder(file_type), unique_filename),
          file_type     |-> file_type,
          file_size     |-> Len(file.content) ]

\* file.save(filepath): create or overwrite
WriteFile(fs, path, content) == (path :> content) @@ fs

(***************************************************************************)
(* The attachment part of submit_claim: the pdfDocument field first, then  *)
(* every file of imageEvidence, each skipped when its name is empty or     *)
(* save_uploaded_file returns None.                                        *)
(***************************************************************************)
PdfCandidates(r) ==
    IF r.pdfDocument # <<>> /\ r.pdfDocument[1].filename # <<>>
    THEN << [file |-> r.pdfDocument[1], file_type |-> "pdf"] >>
    ELSE << >>

ImageCandidates(r) ==
    LET named(f) == f.filename # <<>>
        kept == SelectSeq(r.imageEvidence, named)
    IN  [i \in 1..Len(kept) |-> [file |-> kept[i], file_type |-> "image"]]

Candidates(r) == PdfCandidates(r) \o ImageCandidates(r)

\* the files written and the uploaded_files list after the first n candidates
RECURSIVE StoreFiles(_, _, _, _, _)
StoreFiles(cands, n, claim_id, hexes, fs) ==
    IF n = 0 THEN [fs |-> fs, uploaded_files |-> << >>]
    ELSE LET before == StoreFiles(cands, n - 1, claim_id, hexes, fs)
             c == cands[n]
         IN  IF FileAccepted(c.file)
             THEN LET info == FileInfo(c.file, c.file_type, claim_id, hexes[n])
                  IN  [ fs |-> WriteFile(before.fs, info.file_path, c.file.content),
                        uploaded_files |-> Append(before.uploaded_files, info) ]
             ELSE before

(***************************************************************************)
(* json.dump / json.load.  A document is a tuple of tokens: "{", one       *)
(* "field" token per scalar member, "[" item ... "]" for uploaded_files,   *)
(* "}".  A "nul" token is a hole of a file written past its end.           *)
(***************************************************************************)
Field(k, v) == [t |-> "field", k |-> k, v |-> v]

\* variant: the record is dumped without its submission_time
JsonDumpWithoutTime(claim_data) ==
    << [t |-> "{"],
       Field("claim_id", claim_data.claim_id),
       Field("claim_amount", claim_data.claim_amount),
       Field("description", claim_data.description),
       [t |-> "[", k |-> "uploaded_files"] >>
    \o [i \in 1..Len(claim_data.uploaded_files) |->
            [t |-> "item", v |-> claim_data.uploaded_files[i]]]
    \o << [t |-> "]"], [t |-> "}"] >>

JsonDump(claim_data) ==
    << [t |-> "{"],
       Field("claim_id", claim_data.claim_id),
       Field("claim_amount", claim_data.claim_amount),
       Field("description", claim_data.description),
       [t |-> "[", k |-> "uploaded_files"] >>
    \o [i \in 1..Len(claim_data.uploaded_files) |->
            [t |-> "item", v |-> claim_data.uploaded_files[i]]]
    \o << [t |-> "]"],
          Field("submission_time", claim_data.submission_time),
          [t |-> "}"] >>

\* token i is directly inside a list: a "[" before it and only items between
InList(doc, i) ==
    \E j \in 2..(i - 1) :
        doc[j].t = "[" /\ \A m \in (j + 1)..(i - 1) : doc[m].t = "item"

\* json.load succeeds: one object, every list closed, nothing after the "}"
JsonWellFormed(doc) ==
    /\ Len(doc) >= 2
    /\ doc[1].t = "{"
    /\ doc[Len(doc)].t = "}"
    /\ \A i \in 2..(Len(doc) - 1) : doc[i].t \in {"field", "[", "item", "]"}
    /\ \A i \in 2..Len(doc) :
          IF doc[i].t \in {"item", "]"} THEN InList(doc, i) ELSE ~InList(doc, i)

\* the dictionary json.load returns (a later member of the same key wins)
JsonLoad(doc) ==
    LET members == {i \in 2..(Len(doc) - 1) : doc[i].t \in {"field", "["}}
        keys == {doc[i].k : i \in members}
        at(k) == CHOOSE i \in members :
                    doc[i].k = k /\ \A j \in members : doc[j].k = k => j <= i
        close(i) == CHOOSE j \in (i + 1)..Len(doc) :
                       doc[j].t = "]" /\ \A m \in (i + 1)..(j - 1) : doc[m].t = "item"
        value(i) == IF doc[i].t = "field" THEN doc[i].v
                    ELSE [n \in 1..(close(i) - i - 1) |-> doc[i + n].v]
    IN  [k \in keys |-> value(at(k))]

(***************************************************************************)
(* Requests and responses.                                                 *)
(***************************************************************************)
NoRequest ==
    [ op |-> "none", claimId |-> None, claimAmount |-> None, description |-> None,
      pdfDocument |-> << >>, imageEvidence |-> << >>, filename |-> << >> ]

NoResponse ==
    [ success |-> FALSE, error |-> "none", uploadedFiles |-> << >>,
      claim_data |-> << >>, claims |-> << >>,
      file |-> [path |-> << >>, content |-> << >>] ]

Failure(error) == [NoResponse EXCEPT !.error = error]

\* variant: the presence check tests `is None` and lets an empty field through
MissingNoneOnly(value) == value = None

\* `not value` on a form field: absent or empty
Missing(value) == value = None \/ value = << >>

(***************************************************************************)
(* submit_claim up to the point where the claim document is opened: the    *)
(* presence check, the attachments, then float(claim_amount) while the     *)
(* record is built.  fs is the uploads tree the request leaves behind.     *)
(***************************************************************************)
SubmitOutcome(r, hexes, now, fs) ==
    IF Missing(r.claimId) \/ Missing(r.claimAmount) \/ Missing(r.description)
    THEN [ok |-> FALSE, error |-> "Missing required fields", fs |-> fs,
          claim_data |-> << >>]
    ELSE LET cands == Candidates(r)
             saved == StoreFiles(cands, Len(cands), r.claimId, hexes, fs)
         IN  IF ~FloatOk(r.claimAmount)
             THEN [ok |-> FALSE, error |-> "could not convert string to float",
                   fs |-> saved.fs, claim_data |-> << >>]
             ELSE [ok |-> TRUE, error |-> "none", fs |-> saved.fs,
                   claim_data |->
                     [ claim_id        |-> r.claimId,
                       claim_amount    |-> FloatValue(r.claimAmount),
                       description     |-> r.description,
                       uploaded_files  |-> saved.uploaded_files,
                       submission_time |-> IsoFormat(now) ]]

\* jsonify({'success': True, 'uploadedFiles': uploaded_files, ...})
SubmitSuccess(claim_data) ==
    [NoResponse EXCEPT !.success = TRUE, !.uploadedFiles = claim_data.uploaded_files]

\* variant: every claim is written to the same document
ClaimFilePathShared(claim_id) == <<"c">>

\* os.path.join('claims_data', f"{claim_id}.json"): the key of the document
ClaimFilePath(claim_id) == claim_id

(***************************************************************************)
(* get_claim                                                               *)
(***************************************************************************)
\* variant: the file is opened without the os.path.exists test
GetClaimNoExistsCheck(docs, claim_id) ==
    LET claim_file_path == ClaimFilePath(claim_id)
    IN  IF claim_file_path \notin DOMAIN docs
        THEN Failure("FileNotFoundError")
        ELSE IF ~JsonWellFormed(docs[claim_file_path])
        THEN Failure("JSONDecodeError")
        ELSE [NoResponse EXCEPT !.success = TRUE,
                  !.claim_data = JsonLoad(docs[claim_file_path])]

GetClaimResponse(docs, claim_id) ==
    LET claim_file_path == ClaimFilePath(claim_id)
    IN  IF claim_file_path \notin DOMAIN docs
        THEN Failure("Claim not found")
        ELSE IF ~JsonWellFormed(docs[claim_file_path])
        THEN Failure("JSONDecodeError")
        ELSE [NoResponse EXCEPT !.success = TRUE,
                  !.claim_data = JsonLoad(docs[claim_file_path])]

(***************************************************************************)
(* download_file: the subdirectory is chosen from the extension alone      *)
(***************************************************************************)
DownloadPath(filename) ==
    IF Lower(RSplitExt(filename)) = <<"p","d","f">>
    THEN FilePath("pdfs", filename)
    ELSE FilePath("images", filename)

DownloadResponse(fs, filename) ==
    IF ~HasDot(filename)
    THEN Failure("list index out of range")
    ELSE LET file_path == DownloadPath(filename)
         IN  IF file_path \in DOMAIN fs
             THEN [NoResponse EXCEPT !.success = TRUE,
                       !.file = [path |-> file_path, content |-> fs[file_path]]]
             ELSE Failure("File not found")

(***************************************************************************)
(* list_claims: os.listdir order, one summary per document, then           *)
(* claims.sort(key=submission_time, reverse=True), which is stable.        *)
(***************************************************************************)
SummaryKeys == {"claim_id", "claim_amount", "submission_time", "uploaded_files"}

Summary(claim_data) ==
    [ claim_id        |-> claim_data["claim_id"],
      claim_amount    |-> claim_data["claim_amount"],
      submission_time |-> claim_data["submission_time"],
      files_count     |-> Len(claim_data["uploaded_files"]) ]

\* variant: the sort without reverse=True
InsertOldestFirst(sorted, x) ==
    LET newer == {i \in 1..Len(sorted) :
                    StrLess(x.submission_time, sorted[i].submission_time)}
        pos == IF newer = {} THEN Len(sorted) + 1
               ELSE CHOOSE i \in newer : \A j \in newer : i <= j
    IN  SubSeq(sorted, 1, pos - 1) \o <<x>> \o SubSeq(sorted, pos, Len(sorted))

\* x goes after every element that is not older than it
InsertNewestFirst(sorted, x) ==
    LET older == {i \in 1..Len(sorted) :
                    StrLess(sorted[i].submission_time, x.submission_time)}
        pos == IF older = {} THEN Len(sorted) + 1
               ELSE CHOOSE i \in older : \A j \in older : i <= j
    IN  SubSeq(sorted, 1, pos - 1) \o <<x>> \o SubSeq(sorted, pos, Len(sorted))

RECURSIVE SortNewestFirst(_, _)
SortNewestFirst(claims, n) ==
    IF n = 0 THEN << >>
    ELSE InsertNewestFirst(SortNewestFirst(claims, n - 1), claims[n])

ListDirOrders(docs) ==
    {o \in [1..Cardinality(DOMAIN docs) -> DOMAIN docs] :
        \A i, j \in DOMAIN o : i # j => o[i] # o[j]}

ListClaimsResponse(docs, order) ==
    IF \E i \in DOMAIN order : ~JsonWellFormed(docs[order[i]])
    THEN Failure("JSONDecodeError")
    ELSE IF \E i \in DOMAIN order :
               ~(SummaryKeys \subseteq DOMAIN JsonLoad(docs[order[i]]))
    THEN Failure("KeyError")
    ELSE LET claims == [i \in DOMAIN order |-> Summary(JsonLoad(docs[order[i]]))]
         IN  [NoResponse EXCEPT !.success = TRUE,
                  !.claims = SortNewestFirst(claims, Len(claims))]

(***************************************************************************)
(* Inputs.                                                                 *)
(***************************************************************************)
ClaimIds == { <<"A">>, <<"B">> }
\* each field has its valid values, an unparsable amount, and the absent
\* (None) or empty forms of a missing field
ClaimIdInputs == ClaimIds \cup {None}
AmountInputs == { << >>, <<"x">>, <<"1", ".", "5">> }
DescriptionInputs == { None, << >>, <<"d">> }

EmptyName == [filename |-> << >>,                   content |-> << >>]
NoExt     == [filename |-> <<"a">>,                 content |-> <<"%">>]
TxtFile   == [filename |-> <<"n",".","t","x","t">>, content |-> <<"%">>]
PdfFile   == [filename |-> <<"r",".","p","d","f">>, content |-> <<"%", "%">>]
PngFile   == [filename |-> <<"p",".","P","N","G">>, content |-> <<"%">>]

\* the (pdfDocument, imageEvidence) parts of the modelled requests
Attachments ==
    { [pdf |-> << >>,          images |-> << >>],
      [pdf |-> <<PdfFile>>,    images |-> <<PngFile>>],
      [pdf |-> <<PngFile>>,    images |-> <<NoExt, PdfFile>>],
      [pdf |-> <<TxtFile>>,    images |-> <<EmptyName, PngFile, PngFile>>] }

SubmitRequests ==
    { [NoRequest EXCEPT !.op = "submit_claim", !.claimId = id, !.claimAmount = a,
                        !.description = d, !.pdfDocument = at.pdf,
                        !.imageEvidence = at.images] :
        id \in ClaimIdInputs, a \in AmountInputs, d \in DescriptionInputs,
        at \in Attachments }

\* uuid.uuid4().hex[:8] of the files of one request, shortened to one
\* character each; equal draws collide
HexChoices == { << <<"0">>, <<"0">>, <<"0">> >>, << <<"0">>, <<"1">>, <<"1">> >> }

\* file names asked of download_file: every stored name and two others
DownloadNames(fs) ==
    {p[3] : p \in DOMAIN fs} \cup { <<"q">>, <<"q",".","p","d","f">> }

Idle == [state |-> "idle"]

(***************************************************************************)
(* Initial state: empty directories, no request served.                    *)
(***************************************************************************)
Init ==
    /\ uploads = << >>
    /\ claims_data = << >>
    /\ clock = FirstTick
    /\ req = NoRequest
    /\ resp = NoResponse
    /\ writers = [w \in 1..MaxWriters |-> Idle]
    /\ nreq = 0
    /\ accepted = << >>

\* no handler has a response waiting to be delivered
Quiet == req.op = "none"

\* the readings datetime.now() can give: the clock does not run backwards
Readings == {t \in {clock, clock + 1} : t <= FirstTick + MaxTicks}

\* the history after submission r was answered resp at clock reading now
Accept(r, response, now) ==
    LET n == IF r.claimId \in DOMAIN accepted THEN accepted[r.claimId].n ELSE 0
    IN  (r.claimId :> [req |-> r, resp |-> response, tick |-> now, n |-> n + 1])
        @@ accepted

(***************************************************************************)
(* submit_claim served without any other request running beside it.        *)
(***************************************************************************)
Submit(r, hexes, now) ==
    LET out == SubmitOutcome(r, hexes, now, uploads)
    IN  /\ Quiet
        /\ nreq < MaxSubmits
        /\ nreq' = nreq + 1
        /\ req' = r
        /\ uploads' = out.fs
        /\ UNCHANGED writers
        /\ IF out.ok
           THEN /\ clock' = now
                /\ claims_data' = WriteFile(claims_data, ClaimFilePath(r.claimId),
                                            JsonDump(out.claim_data))
                /\ resp' = SubmitSuccess(out.claim_data)
                /\ accepted' = Accept(r, resp', now)
           ELSE /\ resp' = Failure(out.error)
                /\ UNCHANGED <<claims_data, clock, accepted>>

SubmitClaim ==
    \E r \in SubmitRequests, hexes \in HexChoices, now \in Readings :
        Submit(r, hexes, now)

GetClaim ==
    \E claim_id \in ClaimIds :
        /\ Quiet
        /\ req' = [NoRequest EXCEPT !.op = "get_claim", !.claimId = claim_id]
        /\ resp' = GetClaimResponse(claims_data, claim_id)
        /\ UNCHANGED <<uploads, claims_data, clock, writers, nreq, accepted>>

DownloadFile ==
    \E claim_id \in ClaimIds, filename \in DownloadNames(uploads) :
        /\ Quiet
        /\ req' = [NoRequest EXCEPT !.op = "download_file", !.claimId = claim_id,
                                    !.filename = filename]
        /\ resp' = DownloadResponse(uploads, filename)
        /\ UNCHANGED <<uploads, claims_data, clock, writers, nreq, accepted>>

ListClaims ==
    \E order \in ListDirOrders(claims_data) :
        /\ Quiet
        /\ req' = [NoRequest EXCEPT !.op = "list_claims"]
        /\ resp' = ListClaimsResponse(claims_data, order)
        /\ UNCHANGED <<uploads, claims_data, clock, writers, nreq, accepted>>

\* the response goes out to the client
Deliver ==
    /\ ~Quiet
    /\ req' = NoRequest
    /\ resp' = NoResponse
    /\ UNCHANGED <<uploads, claims_data, clock, writers, nreq, accepted>>

Next == SubmitClaim \/ GetClaim \/ DownloadFile \/ ListClaims \/ Deliver

Spec == Init /\ [][Next]_vars

(***************************************************************************)
(* Requests served side by side (Flask serves each request on its own      *)
(* thread).  submit_claim writes its document in steps: open(path, 'w')    *)
(* truncates the file, every write puts the next token at the writer's own *)
(* offset, and the response is sent after the file is closed.  A writer    *)
(* that has finished stays in its slot as the record of what it wrote.     *)
(***************************************************************************)
Nul == [t |-> "nul"]

\* write(2) of one token at position pos (a write past the end leaves a hole)
WriteAt(file, pos, tok) ==
    IF pos <= Len(file)
    THEN [file EXCEPT ![pos] = tok]
    ELSE file \o [i \in 1..(pos - 1 - Len(file)) |-> Nul] \o <<tok>>

\* the submissions of the side-by-side runs
ConcRequests ==
    { r \in SubmitRequests :
        /\ r.claimId = <<"A">>
        /\ r.description = <<"d">>
        /\ r.claimAmount # << >>
        /\ r.pdfDocument \in {<< >>, <<PdfFile>>} }

FreeSlot(w) == writers[w] = Idle /\ \A v \in 1..(w - 1) : writers[v] # Idle

SubmitOpen(w, r, hexes, now) ==
    LET out == SubmitOutcome(r, hexes, now, uploads)
    IN  /\ nreq < MaxSubmits
        /\ FreeSlot(w)
        /\ nreq' = nreq + 1
        /\ uploads' = out.fs
        /\ IF out.ok
           THEN /\ clock' = now
                /\ claims_data' = WriteFile(claims_data, ClaimFilePath(r.claimId), << >>)
                /\ writers' = [writers EXCEPT ![w] =
                                  [state |-> "writing", req |-> r, tick |-> now,
                                   claim_data |-> out.claim_data,
                                   doc |-> JsonDump(out.claim_data), off |-> 0]]
                /\ UNCHANGED <<req, resp, accepted>>
           ELSE /\ Quiet
                /\ req' = r
                /\ resp' = Failure(out.error)
                /\ UNCHANGED <<claims_data, clock, writers, accepted>>

SubmitOpenStep ==
    \E w \in 1..MaxWriters, r \in ConcRequests, hexes \in HexChoices, now \in Readings :
        SubmitOpen(w, r, hexes, now)

WriteToken ==
    \E w \in 1..MaxWriters :
        /\ writers[w].state = "writing"
        /\ writers[w].off < Len(writers[w].doc)
        /\ LET path == ClaimFilePath(writers[w].req.claimId)
               pos == writers[w].off + 1
           IN  claims_data' = [claims_data EXCEPT
                                 ![path] = WriteAt(@, pos, writers[w].doc[pos])]
        /\ writers' = [writers EXCEPT ![w].off = @ + 1]
        /\ UNCHANGED <<uploads, clock, req, resp, nreq, accepted>>

SubmitClose ==
    \E w \in 1..MaxWriters :
        /\ Quiet
        /\ writers[w].state = "writing"
        /\ writers[w].off = Len(writers[w].doc)
        /\ writers' = [writers EXCEPT ![w].state = "done"]
        /\ req' = writers[w].req
        /\ resp' = SubmitSuccess(writers[w].claim_data)
        /\ accepted' = Accept(writers[w].req, resp', writers[w].tick)
        /\ UNCHANGED <<uploads, claims_data, clock, nreq>>

NextConc ==
    SubmitOpenStep \/ WriteToken \/ SubmitClose \/ GetClaim \/ ListClaims \/ Deliver

SpecConc == Init /\ [][NextConc]_vars

(***************************************************************************)
(* Properties.                                                             *)
(***************************************************************************)
IsSubmit(r) == r.op = "submit_claim"
FieldMissing(r) ==
    \/ r.claimId = None \/ r.claimId = << >>
    \/ r.claimAmount = None \/ r.claimAmount = << >>
    \/ r.description = None \/ r.description = << >>
StoreUnchanged == uploads' = uploads /\ claims_data' = claims_data

\* C1: a submit_claim with claimId, claimAmount or description absent or
\* empty is answered success=false, 'Missing required fields', and leaves
\* the claims directory and the uploads tree as they were, whatever files
\* it carries.
C1_MissingFieldsRejected ==
    /\ [](IsSubmit(req) /\ FieldMissing(req)
            => ~resp.success /\ resp.error = "Missing required fields")
    /\ [][IsSubmit(req') /\ FieldMissing(req') => StoreUnchanged]_vars

C1_Witness ==
    /\ IsSubmit(req)
    /\ req.claimId = <<"A">>
    /\ req.description = << >>
    /\ req.pdfDocument = <<PdfFile>>
    /\ resp.error = "Missing required fields"
    /\ uploads = << >>

\* C2: a submit_claim with all three fields present and an amount that is
\* not a number is answered success=false, writes no claim record and
\* stores none of its attachments.
C2_BadAmountStoresNothing ==
    [][IsSubmit(req') /\ ~FieldMissing(req') /\ ~FloatOk(req'.claimAmount)
         => ~resp'.success /\ StoreUnchanged]_vars

\* the files of a request in upload order, with the field they came in
UploadOrder(r) ==
    [i \in 1..(Len(r.pdfDocument) + Len(r.imageEvidence)) |->
        IF i <= Len(r.pdfDocument)
        THEN [original_name |-> r.pdfDocument[i].filename, file_type |-> "pdf"]
        ELSE [original_name |-> r.imageEvidence[i - Len(r.pdfDocument)].filename,
              file_type |-> "image"]]

\* the name ends in ".<ext>" with ext one of pdf, png, jpg, jpeg, gif in any case
HasListedExtension(name) ==
    \E i \in 1..Len(name) :
        /\ name[i] = "."
        /\ Lower(SubSeq(name, i + 1, Len(name))) \in
              { <<"p","d","f">>, <<"p","n","g">>, <<"j","p","g">>,
                <<"j","p","e","g">>, <<"g","i","f">> }

ExpectedUploads(r) ==
    LET keep(f) == HasListedExtension(f.original_name)
    IN  SelectSeq(UploadOrder(r), keep)

NamesAndTypes(infos) ==
    [i \in 1..Len(infos) |->
        [original_name |-> infos[i].original_name, file_type |-> infos[i].file_type]]

InfoPaths(infos) == {infos[i].file_path : i \in 1..Len(infos)}

\* C3: in a submit_claim with all fields and a numeric amount, the files
\* without a listed extension are skipped (nothing is written for them and
\* they are not in uploaded_files); the response is success=true, the record
\* is saved, and uploaded_files is exactly the accepted files in upload
\* order, the document before the images.
C3_BadExtensionsSkipped ==
    /\ [](IsSubmit(req) /\ ~FieldMissing(req) /\ FloatOk(req.claimAmount)
            => /\ resp.success
               /\ NamesAndTypes(resp.uploadedFiles) = ExpectedUploads(req)
               /\ req.claimId \in DOMAIN claims_data
               /\ JsonWellFormed(claims_data[req.claimId])
               /\ JsonLoad(claims_data[req.claimId])["uploaded_files"]
                     = resp.uploadedFiles
               /\ InfoPaths(resp.uploadedFiles) \subseteq DOMAIN uploads)
    /\ [][IsSubmit(req') /\ resp'.success
            => (DOMAIN uploads') \ (DOMAIN uploads) \subseteq InfoPaths(resp'.uploadedFiles)]_vars

C3_Witness ==
    /\ IsSubmit(req)
    /\ resp.success
    /\ req.pdfDocument = <<TxtFile>>
    /\ req.imageEvidence = <<EmptyName, PngFile, PngFile>>
    /\ Len(resp.uploadedFiles) = 2

\* C4: get_claim(X) after the last successful submit_claim for X returns
\* success=true and the record of that submission: its claim_id, its
\* amount as a number, its description, the uploadedFiles list of its
\* response and the submission_time it set.
C4_RoundTrip ==
    \A x \in DOMAIN accepted :
        req.op = "get_claim" /\ req.claimId = x =>
            /\ resp.success
            /\ resp.claim_data =
                  [ claim_id        |-> accepted[x].req.claimId,
                    claim_amount    |-> FloatValue(accepted[x].req.claimAmount),
                    description     |-> accepted[x].req.description,
                    uploaded_files  |-> accepted[x].resp.uploadedFiles,
                    submission_time |-> IsoFormat(accepted[x].tick) ]

C4_Witness ==
    /\ req.op = "get_claim"
    /\ req.claimId \in DOMAIN accepted
    /\ resp.success
    /\ Len(resp.claim_data["uploaded_files"]) = 2
    /\ accepted[req.claimId].n = 2

Positions(claims, x) == {i \in 1..Len(claims) : claims[i].claim_id = x}

\* C5: list_claims returns success=true with exactly one summary per stored
\* document, and a claim submitted later stands before a claim submitted
\* earlier.
C5_NewestFirst ==
    req.op = "list_claims" =>
        /\ resp.success
        /\ Len(resp.claims) = Cardinality(DOMAIN claims_data)
        /\ \A x \in DOMAIN claims_data :
              /\ Cardinality(Positions(resp.claims, x)) = 1
              /\ \A i \in Positions(resp.claims, x) :
                    /\ resp.claims[i].submission_time = IsoFormat(accepted[x].tick)
                    /\ resp.claims[i].files_count = Len(accepted[x].resp.uploadedFiles)
        /\ \A i, j \in 1..Len(resp.claims) :
              accepted[resp.claims[i].claim_id].tick
                  > accepted[resp.claims[j].claim_id].tick => i < j

C5_Witness ==
    /\ req.op = "list_claims"
    /\ Len(resp.claims) = 2
    /\ resp.claims[1].claim_id = <<"A">>
    /\ accepted[<<"A">>].tick > accepted[<<"B">>].tick

\* C6: get_claim for an identifier without a stored document, never
\* submitted or submitted only in rejected requests, answers success=false
\* 'Claim not found' and creates no document.
C6_NotFound ==
    /\ [](/\ DOMAIN claims_data = DOMAIN accepted
          /\ req.op = "get_claim" /\ req.claimId \notin DOMAIN accepted
                => ~resp.success /\ resp.error = "Claim not found")
    /\ [][req'.op = "get_claim" => StoreUnchanged]_vars

\* a rejected submission for the identifier left a file of it behind
C6_Witness ==
    /\ req.op = "get_claim"
    /\ req.claimId \notin DOMAIN claims_data
    /\ resp.error = "Claim not found"
    /\ \E p \in DOMAIN uploads : p[3][1] = req.claimId[1]

\* C7 as stated: once a record for X is written, its submission_time and
\* uploaded_files never change, whatever requests follow.
C7_NeverUpdated ==
    [][\A x \in DOMAIN claims_data :
          /\ x \in DOMAIN claims_data'
          /\ JsonLoad(claims_data'[x])["submission_time"]
                = JsonLoad(claims_data[x])["submission_time"]
          /\ JsonLoad(claims_data'[x])["uploaded_files"]
                = JsonLoad(claims_data[x])["uploaded_files"]]_vars

\* C7 amended: the record stored for X is changed by nothing but a
\* successful submit_claim with claim id X, which replaces it by the whole
\* record of that submission.
C7_ReplacedOnlyByResubmission ==
    [][\A x \in DOMAIN claims_data :
          IF IsSubmit(req') /\ req'.claimId = x /\ resp'.success
          THEN /\ x \in DOMAIN claims_data'
               /\ JsonLoad(claims_data'[x])["submission_time"] = IsoFormat(clock')
               /\ JsonLoad(claims_data'[x])["uploaded_files"] = resp'.uploadedFiles
          ELSE /\ x \in DOMAIN claims_data'
               /\ claims_data'[x] = claims_data[x]]_vars

C7_Witness ==
    /\ IsSubmit(req)
    /\ resp.success
    /\ accepted[req.claimId].n = 2
    /\ Len(resp.uploadedFiles) = 0
    /\ \E p \in DOMAIN uploads : p[3][1] = req.claimId[1]

\* the submissions that have opened the document of claim id x
Writers(x) == {w \in 1..MaxWriters : writers[w] # Idle /\ writers[w].req.claimId = x}

\* C8: a get_claim or list_claims that runs while a submit_claim is writing
\* the document sees the complete record of some submission (or, for
\* get_claim, no document): never an empty or partial document, never a
\* failure to read.
C8_AtomicVisibility ==
    /\ req.op = "get_claim" =>
          IF resp.success
          THEN \E w \in Writers(req.claimId) : resp.claim_data = writers[w].claim_data
          ELSE resp.error = "Claim not found"
    /\ req.op = "list_claims" =>
          /\ resp.success
          /\ \A i \in 1..Len(resp.claims) :
                \E w \in Writers(resp.claims[i].claim_id) :
                    resp.claims[i].submission_time = writers[w].claim_data.submission_time

\* C9: once every submission with a claim id has completed, the stored
\* document is the complete record of one of them, with nothing of the
\* others in it.
C9_LastWriterWins ==
    (\A w \in 1..MaxWriters : writers[w] = Idle \/ writers[w].state = "done") =>
        \A x \in DOMAIN claims_data :
            \E w \in Writers(x) : claims_data[x] = writers[w].doc

\* the attachment references of every stored record
StoredReferences ==
    UNION { {f[i] : i \in 1..Len(f)} :
              f \in {JsonLoad(claims_data[x])["uploaded_files"] : x \in DOMAIN claims_data} }

\* C10: download_file of the saved_name of any attachment reference of a
\* stored record returns the file from the subdirectory it was saved in.
C10_EveryAttachmentRetrievable ==
    req.op = "download_file" =>
        \A info \in StoredReferences :
            info.saved_name = req.filename =>
                resp.success /\ resp.file.path = info.file_path

====
